---- MODULE Spec2Model ----
(***************************************************************************)
(* A model of app.py: the paginated catalog walk (iterate_products), the   *)
(* status summary (summarize_states), the delete adapter (post_remove_sku) *)
(* and the bulk removal loop of the "confirm_delete" branch, and the       *)
(* Streamlit script that drives them from one session.                     *)
(***************************************************************************)
EXTENDS Integers, Sequences, FiniteSets, TLC

VARIABLES
    \* ---- iterate_products (app.py 34-87)
    max_pages,      \* parameter max_pages (0 = unlimited)
    delay_s,        \* parameter delay_s (0 = no pause)
    log_cb,         \* TRUE when a log callback is supplied
    next_url,       \* local next_url, a JSON value (string or null)
    items_acc,      \* local items_acc
    page,           \* local page
    wpc,            \* position in iterate_products: while, fetch, done, raised
    wexc,           \* the exception that left iterate_products, "" when none
    data,           \* local data: the payload of the page fetched last
    page_items,     \* local page_items: the items taken from that payload
    wresult,        \* the list iterate_products returned
    events,         \* what the walk did outside itself: log lines, fetches, sleeps
    \* ---- summarize_states (app.py 90-99)
    sum_items,      \* parameter items
    sum_i,          \* the number of items the for loop has taken
    rows,           \* local rows
    counts,         \* local counts, a Counter: a function from its keys to numbers
    spc,            \* position in summarize_states: loop, done
    \* ---- the removal loop of the confirm_delete branch (app.py 265-283)
    df_to_delete,   \* the rows to delete (not empty: line 262)
    total,          \* local total
    idx,            \* loop counter idx of enumerate(..., start=1)
    removed_rows,   \* local removed_rows
    failed_rows,    \* local failed_rows
    outcome,        \* (success, status_code, resp_text) of the last post_remove_sku
    progress,       \* the values given to progress_bar.progress, in order
    rlogs,          \* the lines the loop gave to log()
    calls,          \* the sku of every post_remove_sku call, in order
    posts,          \* every returned post_remove_sku call: sku, reply, result
    inflight,       \* the number of delete requests sent and not yet answered
    rpc,            \* position in the loop: next, posting, progress, done
    \* ---- the script and its session (app.py 130-323)
    apc,            \* position of the script run: idle between two runs, walk,
                    \* summarize, tail, remove, end; off when no script runs
    pressed,        \* the button whose click started this run ("none": a widget change)
    token,          \* sidebar token
    preserve_cache, \* sidebar preserve_cache
    cache_key,      \* local cache_key
    use_cache,      \* local use_cache
    cached,         \* st.session_state["cached"]: a function from keys to tables
    filled,         \* for each key of cached, the walk that filled the entry
    last_df,        \* st.session_state["last_df"]
    last_counts,    \* st.session_state["last_counts"]
    df,             \* local df
    app_counts,     \* local counts of the script
    selected_statuses, \* local selected_statuses, as a set
    report_df,      \* local report_df
    summary_counts, \* local summary_counts
    xlsx,           \* the workbook df_to_excel_bytes wrote
    app_exc         \* the exception that ended the script run, "" when none

walkVars == <<max_pages, delay_s, log_cb, next_url, items_acc, page, wpc, wexc,
              data, page_items, wresult, events>>

sumVars == <<sum_items, sum_i, rows, counts, spc>>

removeVars == <<df_to_delete, total, idx, removed_rows, failed_rows, outcome, progress,
                rlogs, calls, posts, inflight, rpc>>

localVars == <<pressed, token, preserve_cache, cache_key, use_cache, df, app_counts,
               selected_statuses, report_df, summary_counts, xlsx, app_exc>>

sessionVars == <<cached, filled, last_df, last_counts>>

appVars == <<apc, localVars, sessionVars>>

vars == <<walkVars, sumVars, removeVars, appVars>>

(***************************************************************************)
(* JSON values as the Python code sees them after resp.json().  A value is *)
(* a record tagged with its Python type; a dict is a function from its     *)
(* keys to values, so a missing key and a null value stay different.       *)
(***************************************************************************)
JNull == [t |-> "null"]

JStr(s) == [t |-> "str", v |-> s]

JNum(n) == [t |-> "num", v |-> n]

JList(s) == [t |-> "list", v |-> s]

JDict(f) == [t |-> "dict", v |-> f]

NoKeys == [k \in {} |-> JNull]

IsDict(v) == v.t = "dict"

IsList(v) == v.t = "list"

\* Python truthiness: None, "", 0, [] and {} are false.
Truthy(v) ==
    CASE v.t = "null" -> FALSE
      [] v.t = "str"  -> v.v # ""
      [] v.t = "num"  -> v.v # 0
      [] v.t = "list" -> Len(v.v) # 0
      [] v.t = "dict" -> DOMAIN v.v # {}

\* d.get(k, default) on a dict d.
DictGet(d, k, default) == IF k \in DOMAIN d.v THEN d.v[k] ELSE default

\* Python's "v or d".
PyOr(v, d) == IF Truthy(v) THEN v ELSE d

\* The characters of the strings the payloads below use (a str is iterable).
Chars(s) ==
    CASE s = ""   -> <<>>
      [] s = "xy" -> <<JStr("x"), JStr("y")>>

\* What list.extend(v) can iterate: a list or a str; a number raises TypeError.
Iterable(v) == v.t \in {"list", "str"}

Elements(v) == IF v.t = "list" THEN v.v ELSE Chars(v.v)

(***************************************************************************)
(* The listing endpoint.  A reply is what requests gets back for one GET:  *)
(* a transport failure, or an HTTP status with a JSON body.                *)
(***************************************************************************)
TransportFailure == [kind |-> "transport", status |-> 0, body |-> JNull]

HttpReply(status, body) == [kind |-> "http", status |-> status, body |-> body]

BaseUrl == JStr("u0")

NextUrls == {JStr("u1"), JStr("u2")}

ItemA == JDict([sku |-> JStr("A"), state |-> JStr("approved")])

ItemB == JDict([sku |-> JStr("B"), state |-> JStr("rejected")])

ItemC == JDict([sku |-> JStr("C"), state |-> JNull])

\* The "paging" part of a payload: absent, empty, with a next value, or no mapping.
NoPaging == NoKeys

PagingEmpty == "paging" :> JDict(NoKeys)

PagingNext(v) == "paging" :> JDict("next" :> v)

PagingNull == "paging" :> JNull

PagingStr == "paging" :> JStr("xy")

\* The payload shapes: {"data": {"items": c}}, {"data": c}, {"items": c},
\* {"data": null, "items": c}, each with a paging part pg.
ShapeNested(c, pg) == JDict(("data" :> JDict("items" :> c)) @@ pg)

ShapeDataList(c, pg) == JDict(("data" :> c) @@ pg)

ShapeTopItems(c, pg) == JDict(("items" :> c) @@ pg)

ShapeTopItemsNullData(c, pg) == JDict(("data" :> JNull) @@ ("items" :> c) @@ pg)

ListAB == JList(<<ItemA, ItemB>>)

ListC == JList(<<ItemC>>)

ListEmpty == JList(<<>>)

ContinuingPaging == {PagingNext(u) : u \in NextUrls}

EndPaging == {NoPaging, PagingEmpty, PagingNext(JNull), PagingNext(JStr(""))}

\* Payloads in the three shapes the endpoint documents.
WellFormedPayloads ==
    {ShapeNested(ListAB, pg) : pg \in ContinuingPaging \cup EndPaging}
    \cup {ShapeNested(c, pg) : c \in {ListC, ListEmpty},
                               pg \in {NoPaging, PagingNext(JStr("u1"))}}
    \cup {ShapeDataList(ListAB, pg) : pg \in {NoPaging, PagingNext(JStr("u1"))}}
    \cup {ShapeDataList(ListC, NoPaging)}
    \cup {ShapeTopItems(ListAB, pg) : pg \in {NoPaging, PagingNext(JStr("u1"))}}
    \cup {ShapeTopItems(ListC, NoPaging)}

\* Payloads of other shapes.
OddPayloads ==
    {ShapeTopItemsNullData(ListAB, pg) : pg \in {NoPaging, PagingNext(JStr("u1"))}}
    \cup {ShapeNested(JNull, pg) : pg \in {NoPaging, PagingNext(JStr("u1"))}}
    \cup {ShapeNested(JStr("xy"), pg) : pg \in {NoPaging, PagingNext(JStr("u1"))}}
    \cup {ShapeNested(JNum(5), pg) : pg \in {NoPaging, PagingNext(JStr("u1"))}}
    \cup {ShapeNested(ListC, PagingNull),
          ShapeNested(ListC, PagingStr),
          ListAB}

Replies ==
    {HttpReply(200, p) : p \in WellFormedPayloads \cup OddPayloads}
    \cup {HttpReply(500, JNull), TransportFailure}

(***************************************************************************)
(* fetch_json (app.py 23-31): s.get raises a RequestException on a         *)
(* transport failure, raise_for_status raises HTTPError on a 4xx or 5xx    *)
(* status, otherwise the parsed body is returned.                          *)
(***************************************************************************)
fetch_json(reply) ==
    IF reply.kind = "transport"
    THEN [exc |-> "RequestException", json |-> JNull]
    ELSE IF reply.status >= 400 /\ reply.status < 600
         THEN [exc |-> "HTTPError", json |-> JNull]
         ELSE [exc |-> "", json |-> reply.body]

(***************************************************************************)
(* iterate_products (app.py 34-87)                                         *)
(***************************************************************************)
MaxPagesLimit == 2      \* max_pages is drawn from 0..MaxPagesLimit

MaxFetches == 3         \* an unlimited walk is followed for this many fetches

Delays == {0, 1}

\* The side effects of the walk, in the order they happen.
LogEvent(line, p, n, url) ==
    [e |-> "log", line |-> line, page |-> p, n |-> n, url |-> url, reply |-> TransportFailure]

FetchEvent(url, reply) ==
    [e |-> "fetch", line |-> "", page |-> 0, n |-> 0, url |-> url, reply |-> reply]

SleepEvent(d) ==
    [e |-> "sleep", line |-> "", page |-> 0, n |-> d, url |-> JNull, reply |-> TransportFailure]

\* "if log_cb: log_cb(...)"
Log(line, p, n, url) == IF log_cb THEN <<LogEvent(line, p, n, url)>> ELSE <<>>

\* Lines 67-74: the item container of a payload that is a dict.
PageItems(d) ==
    LET data_field == DictGet(d, "data", JDict(NoKeys))
    IN  IF IsDict(data_field)
        THEN PyOr(DictGet(data_field, "items", JList(<<>>)), JList(<<>>))
        ELSE IF IsList(data_field)
             THEN data_field
             ELSE PyOr(DictGet(d, "items", JList(<<>>)), JList(<<>>))

\* Line 79: the paging block of a payload that is a dict.
PagingOf(d) == DictGet(d, "paging", JDict(NoKeys))

\* "return items_acc" (line 87), reached by the end of the loop or a break.
WalkReturns ==
    /\ wpc' = "done"
    /\ wresult' = items_acc

WalkRaises(exc) ==
    /\ wpc' = "raised"
    /\ wexc' = exc

\* Lines 45-53: the loop test, the page counter, the max_pages test.
WalkWhile ==
    /\ wpc = "while"
    /\ IF ~Truthy(next_url)
       THEN /\ WalkReturns
            /\ UNCHANGED <<page, events>>
       ELSE /\ page' = page + 1
            /\ IF max_pages # 0 /\ page' > max_pages
               THEN /\ events' = events \o Log("Reached max_pages", page', max_pages, JNull)
                    /\ WalkReturns
               ELSE /\ events' = events \o Log("Requesting page", page', 0, next_url)
                    /\ wpc' = "fetch"
                    /\ UNCHANGED wresult
    /\ UNCHANGED <<max_pages, delay_s, log_cb, next_url, items_acc, wexc, data, page_items>>
    /\ UNCHANGED <<sumVars, removeVars, appVars>>

\* Lines 55-64: the fetch of the page at next_url, and the two except clauses.
WalkFetch ==
    /\ wpc = "fetch"
    /\ page <= MaxFetches
    /\ \E reply \in Replies :
          LET got == fetch_json(reply)
              fetched == events \o <<FetchEvent(next_url, reply)>>
          IN  IF got.exc = "HTTPError"
              THEN /\ events' = fetched \o Log("HTTP error page", page, 0, JNull)
                   /\ WalkReturns
                   /\ UNCHANGED data
              ELSE IF got.exc = "RequestException"
                   THEN /\ events' = fetched \o Log("Network error page", page, 0, JNull)
                        /\ WalkReturns
                        /\ UNCHANGED data
                   ELSE /\ events' = fetched
                        /\ data' = got.json
                        /\ wpc' = "page"
                        /\ UNCHANGED wresult
    /\ UNCHANGED <<max_pages, delay_s, log_cb, next_url, items_acc, page, wexc, page_items>>
    /\ UNCHANGED <<sumVars, removeVars, appVars>>

\* Lines 66-85: the items of the page, the next token, the pause.
WalkPage ==
    /\ wpc = "page"
    /\ IF ~IsDict(data)
       THEN \* data.get on a payload that is no dict (line 67)
            /\ WalkRaises("AttributeError")
            /\ UNCHANGED <<page_items, items_acc, next_url, events>>
       ELSE LET items == PageItems(data)
                paging == PagingOf(data)
            IN  /\ page_items' = items
                /\ IF ~Iterable(items)
                   THEN \* items_acc.extend on a number (line 76)
                        /\ WalkRaises("TypeError")
                        /\ UNCHANGED <<items_acc, next_url, events>>
                   ELSE /\ items_acc' = items_acc \o Elements(items)
                        /\ IF ~IsDict(paging)
                           THEN \* paging.get on a paging block that is no dict (line 80)
                                /\ WalkRaises("AttributeError")
                                /\ UNCHANGED <<next_url, events>>
                           ELSE LET nxt == DictGet(paging, "next", JNull)
                                IN  /\ next_url' = nxt
                                    /\ events' = events
                                          \o Log("Fetched", page, Len(Elements(items)), nxt)
                                          \o (IF delay_s # 0 /\ Truthy(nxt)
                                              THEN <<SleepEvent(delay_s)>> ELSE <<>>)
                                    /\ wpc' = "while"
                                    /\ UNCHANGED wexc
    /\ UNCHANGED <<max_pages, delay_s, log_cb, page, data, wresult>>
    /\ UNCHANGED <<sumVars, removeVars, appVars>>

WalkStart ==
    /\ max_pages \in 0..MaxPagesLimit
    /\ delay_s \in Delays
    /\ log_cb \in BOOLEAN
    /\ next_url = BaseUrl
    /\ items_acc = <<>>
    /\ page = 0
    /\ wpc = "while"
    /\ wexc = ""
    /\ data = JNull
    /\ page_items = JNull
    /\ wresult = <<>>
    /\ events = <<>>

\* No walk under way.
WalkIdle ==
    /\ max_pages = 0
    /\ delay_s = 0
    /\ log_cb = TRUE
    /\ next_url = JNull
    /\ items_acc = <<>>
    /\ page = 0
    /\ wpc = "idle"
    /\ wexc = ""
    /\ data = JNull
    /\ page_items = JNull
    /\ wresult = <<>>
    /\ events = <<>>

\* The fetches of the walk so far, in order.
Fetches == SelectSeq(events, LAMBDA ev : ev.e = "fetch")

FetchFailed(f) == f.reply.kind = "transport" \/ f.reply.status >= 400

WalkEnded == wpc \in {"done", "raised"}

(***************************************************************************)
(* summarize_states (app.py 90-99)                                         *)
(***************************************************************************)
MaxSumItems == 3        \* summarize_states is given up to this many items

\* Items with the keys "sku" and "state" present, null, empty or missing.
SumItemPool ==
    {ItemA, ItemB, ItemC,
     JDict([sku |-> JNull, state |-> JStr("approved")]),
     JDict([state |-> JStr("rejected")]),
     JDict([sku |-> JStr(""), state |-> JStr("")]),
     JDict([sku |-> JStr("D")]),
     JDict(NoKeys)}

\* Line 94: it.get("sku") or ""
SkuOf(it) ==
    LET v == DictGet(it, "sku", JNull) IN IF Truthy(v) THEN v.v ELSE ""

\* Line 95: it.get("state") or "unknown"
StateOf(it) ==
    LET v == DictGet(it, "state", JNull) IN IF Truthy(v) THEN v.v ELSE "unknown"

\* Line 97: counts[state] += 1 on a Counter (a missing key counts from 0).
CounterAdd(c, k) ==
    IF k \in DOMAIN c
    THEN [c EXCEPT ![k] = @ + 1]
    ELSE [x \in DOMAIN c \cup {k} |-> IF x = k THEN 1 ELSE c[x]]

EmptyCounter == [k \in {} |-> 0]

\* One turn of the for loop that leaves out an item without an identifier.
SummarizeItemDropsNoSku ==
    /\ spc = "loop"
    /\ sum_i < Len(sum_items)
    /\ LET it == sum_items[sum_i + 1]
       IN  /\ sum_i' = sum_i + 1
           /\ IF SkuOf(it) = ""
              THEN UNCHANGED <<rows, counts>>
              ELSE /\ rows' = Append(rows, [Skus |-> SkuOf(it), State |-> StateOf(it)])
                   /\ counts' = CounterAdd(counts, StateOf(it))
    /\ UNCHANGED <<sum_items, spc>>
    /\ UNCHANGED <<walkVars, removeVars, appVars>>

\* Lines 93-97: one turn of the for loop.
SummarizeItem ==
    /\ spc = "loop"
    /\ sum_i < Len(sum_items)
    /\ LET it == sum_items[sum_i + 1]
       IN  /\ sum_i' = sum_i + 1
           /\ rows' = Append(rows, [Skus |-> SkuOf(it), State |-> StateOf(it)])
           /\ counts' = CounterAdd(counts, StateOf(it))
    /\ UNCHANGED <<sum_items, spc>>
    /\ UNCHANGED <<walkVars, removeVars, appVars>>

\* Lines 98-99: the loop is over, (df, counts) is returned.
SummarizeReturn ==
    /\ spc = "loop"
    /\ sum_i = Len(sum_items)
    /\ spc' = "done"
    /\ UNCHANGED <<sum_items, sum_i, rows, counts>>
    /\ UNCHANGED <<walkVars, removeVars, appVars>>

SummarizeStart ==
    /\ sum_items \in UNION {[1..n -> SumItemPool] : n \in 0..MaxSumItems}
    /\ sum_i = 0
    /\ rows = <<>>
    /\ counts = EmptyCounter
    /\ spc = "loop"

SummarizeIdle ==
    /\ sum_items = <<>>
    /\ sum_i = 0
    /\ rows = <<>>
    /\ counts = EmptyCounter
    /\ spc = "idle"

(***************************************************************************)
(* post_remove_sku (app.py 102-112) and the removal loop (app.py 265-283)  *)
(***************************************************************************)
MaxItems == 3           \* up to this many rows are deleted in one run

\* What requests gets back for one POST to the removal endpoint.
DeleteReply(status, text) == [kind |-> "http", status |-> status, text |-> text]

DeleteTransportFailure == [kind |-> "transport", status |-> 0, text |-> "timed out"]

DeleteReplies ==
    {DeleteReply(200, "ok"), DeleteReply(204, ""), DeleteReply(500, "err"),
     DeleteTransportFailure}

\* Rows of the catalog table as summarize_states makes them.
RowPool ==
    {[Skus |-> "A", State |-> "approved"],
     [Skus |-> "B", State |-> "rejected"],
     [Skus |-> "", State |-> "unknown"]}

\* Lines 108-112 with any 2xx status taken for a success.
post_remove_sku_any_2xx(reply) ==
    IF reply.kind = "transport"
    THEN [success |-> FALSE, status_code |-> -1, resp_text |-> reply.text]
    ELSE [success |-> reply.status >= 200 /\ reply.status < 300,
          status_code |-> reply.status, resp_text |-> reply.text]

\* Lines 108-112: (resp.status_code == 200, resp.status_code, resp.text), or
\* (False, -1, str(e)) when s.post raised a RequestException.
post_remove_sku(reply) ==
    IF reply.kind = "transport"
    THEN [success |-> FALSE, status_code |-> -1, resp_text |-> reply.text]
    ELSE [success |-> reply.status = 200,
          status_code |-> reply.status, resp_text |-> reply.text]

\* Line 282 computed from the items before the current one.
PctOfPrevious(i, n) == ((i - 1) * 100) \div n

\* Line 282: int((idx / total) * 100).  For total < 50 the double arithmetic
\* gives the exact floor of 100 * idx / total (29/50 is the first pair where
\* it falls one short).
Pct(i, n) == (i * 100) \div n

\* Lines 271-273: the next row is taken and its sku is sent to the endpoint.
RemoveCall ==
    /\ rpc = "next"
    /\ idx <= total
    /\ calls' = Append(calls, df_to_delete[idx].Skus)
    /\ inflight' = inflight + 1
    /\ rpc' = "posting"
    /\ UNCHANGED <<df_to_delete, total, idx, removed_rows, failed_rows, outcome,
                   progress, rlogs, posts>>
    /\ UNCHANGED <<walkVars, sumVars, appVars>>

\* Lines 273-279: post_remove_sku returns and the row goes to removed_rows or
\* to failed_rows.
RemoveOutcome ==
    /\ rpc = "posting"
    /\ \E reply \in DeleteReplies :
          LET row == df_to_delete[idx]
              sku == row.Skus
              res == post_remove_sku(reply)
          IN  /\ outcome' = res
              /\ posts' = Append(posts, [sku |-> sku, reply |-> reply, result |-> res])
              /\ IF res.success
                 THEN /\ removed_rows' = Append(removed_rows,
                            [Skus |-> sku, State |-> row.State,
                             StatusCode |-> res.status_code])
                      /\ rlogs' = Append(rlogs,
                            [line |-> "Removed", sku |-> sku, code |-> res.status_code])
                      /\ UNCHANGED failed_rows
                 ELSE /\ failed_rows' = Append(failed_rows,
                            [Skus |-> sku, State |-> row.State,
                             StatusCode |-> res.status_code, Error |-> res.resp_text])
                      /\ rlogs' = Append(rlogs,
                            [line |-> "Failed", sku |-> sku, code |-> res.status_code])
                      /\ UNCHANGED removed_rows
    /\ inflight' = inflight - 1
    /\ rpc' = "progress"
    /\ UNCHANGED <<df_to_delete, total, idx, progress, calls>>
    /\ UNCHANGED <<walkVars, sumVars, appVars>>

\* Lines 282-283 in a loop that breaks after a failed delete.
RemoveProgressBreaksOnFailure ==
    /\ rpc = "progress"
    /\ progress' = Append(progress, Pct(idx, total))
    /\ idx' = idx + 1
    /\ rpc' = IF idx = total \/ ~outcome.success THEN "done" ELSE "next"
    /\ UNCHANGED <<df_to_delete, total, removed_rows, failed_rows, outcome, rlogs,
                   calls, posts, inflight>>
    /\ UNCHANGED <<walkVars, sumVars, appVars>>

\* Lines 282-283 in a loop that tries a failed row again.
RemoveProgressRetriesFailure ==
    /\ rpc = "progress"
    /\ progress' = Append(progress, Pct(idx, total))
    /\ idx' = IF outcome.success THEN idx + 1 ELSE idx
    /\ rpc' = IF idx' > total THEN "done" ELSE "next"
    /\ UNCHANGED <<df_to_delete, total, removed_rows, failed_rows, outcome, rlogs,
                   calls, posts, inflight>>
    /\ UNCHANGED <<walkVars, sumVars, appVars>>

\* Lines 282-283: the progress bar is set and the loop goes to the next row.
RemoveProgress ==
    /\ rpc = "progress"
    /\ progress' = Append(progress, Pct(idx, total))
    /\ idx' = idx + 1
    /\ rpc' = IF idx = total THEN "done" ELSE "next"
    /\ UNCHANGED <<df_to_delete, total, removed_rows, failed_rows, outcome, rlogs,
                   calls, posts, inflight>>
    /\ UNCHANGED <<walkVars, sumVars, appVars>>

\* Lines 262-269: the loop starts on a table that is not empty.
RemoveStart ==
    /\ df_to_delete \in UNION {[1..n -> RowPool] : n \in 1..MaxItems}
    /\ total = Len(df_to_delete)
    /\ idx = 1
    /\ removed_rows = <<>>
    /\ failed_rows = <<>>
    /\ outcome = [success |-> FALSE, status_code |-> 0, resp_text |-> ""]
    /\ progress = <<>>
    /\ rlogs = <<>>
    /\ calls = <<>>
    /\ posts = <<>>
    /\ inflight = 0
    /\ rpc = "next"

RemoveIdle ==
    /\ df_to_delete = <<>>
    /\ total = 0
    /\ idx = 1
    /\ removed_rows = <<>>
    /\ failed_rows = <<>>
    /\ outcome = [success |-> FALSE, status_code |-> 0, resp_text |-> ""]
    /\ progress = <<>>
    /\ rlogs = <<>>
    /\ calls = <<>>
    /\ posts = <<>>
    /\ inflight = 0
    /\ rpc = "idle"

(***************************************************************************)
(* The script (app.py 130-323).  Streamlit runs it from top to bottom on   *)
(* every interaction; st.session_state outlives the run, the locals do     *)
(* not.  A button is True only in the run its click started, so at most    *)
(* one button is True in a run.  The text of st.session_state["logs"] is   *)
(* what events and rlogs record; "Effacer logs" changes nothing else, so   *)
(* its run is the run of a widget change.                                  *)
(***************************************************************************)
AppMaxFetches == 2      \* the script's walks are followed up to this many fetches

Buttons == {"run_extract", "force_refresh", "confirm_delete",
            "select_all", "deselect_all", "invert", "none"}

run_extract == pressed = "run_extract"

force_refresh == pressed = "force_refresh"

confirm == pressed = "confirm_delete"

\* Sidebar inputs: the token (line 132, "" by default), max_pages (line 134),
\* delay_s (line 135, left at its default 0.0); base_url is left at BaseUrl.
Tokens == {"", "t1"}

AppMaxPages == {0, 1}

AppDelay == 0

\* What the endpoint answers to the script's walks.
AppReplies ==
    {HttpReply(200, ShapeNested(ListAB, PagingNext(JStr("u1")))),
     HttpReply(200, ShapeNested(ListC, NoPaging)),
     HttpReply(200, ShapeNested(ListEmpty, NoPaging)),
     HttpReply(200, ShapeNested(ListC, PagingNull)),
     TransportFailure}

\* What the removal endpoint answers to the script's deletes.
AppDeleteReplies == {DeleteReply(200, "ok"), DeleteReply(500, "err")}

\* A pandas table: its column labels and its rows (records over the labels).
DataFrame(rs, cols) == [columns |-> IF rs = <<>> THEN <<>> ELSE cols, rows |-> rs]

\* pd.DataFrame() and pd.DataFrame([]): no column, no row.
EmptyFrame == [columns |-> <<>>, rows |-> <<>>]

Empty(d) == d.rows = <<>> \/ d.columns = <<>>

HasColumn(d, c) == \E j \in 1..Len(d.columns) : d.columns[j] = c

\* Line 98: pd.DataFrame(rows) on the rows of summarize_states.
CatalogFrame(rs) == DataFrame(rs, <<"Skus", "State">>)

\* Line 185: Counter(df["State"].tolist())
RECURSIVE CounterOf(_, _)
CounterOf(rs, n) ==
    IF n = 0 THEN EmptyCounter ELSE CounterAdd(CounterOf(rs, n - 1), rs[n].State)

\* Line 180: the cache key.
CacheKey(u, tk, mp, d) == [base_url |-> u, token |-> tk, max_pages |-> mp, delay_s |-> d]

NoKey == CacheKey(JNull, "", 0, 0)

\* Line 255 with every row kept once a status is selected.
IsinAnyStatus(d, sel) == d.rows

\* Line 255: df[df["State"].isin(selected_statuses)]
Isin(d, sel) == SelectSeq(d.rows, LAMBDA r : r.State \in sel)

NaN == "NaN"

\* Lines 304-307 with the failed rows put before the removed rows.
ReportRowsFailedFirst(removed, failed) ==
    [i \in 1..Len(failed) |->
        [Skus |-> failed[i].Skus, State |-> failed[i].State,
         StatusCode |-> failed[i].StatusCode, Result |-> "failed",
         Error |-> failed[i].Error]]
    \o [i \in 1..Len(removed) |->
        [Skus |-> removed[i].Skus, State |-> removed[i].State,
         StatusCode |-> removed[i].StatusCode, Result |-> "removed", Error |-> NaN]]

\* Lines 304-307: pd.concat of the removed rows with Result = "removed" and
\* the failed rows with Result = "failed"; a removed row has no Error value.
ReportRows(removed, failed) ==
    [i \in 1..Len(removed) |->
        [Skus |-> removed[i].Skus, State |-> removed[i].State,
         StatusCode |-> removed[i].StatusCode, Result |-> "removed", Error |-> NaN]]
    \o [i \in 1..Len(failed) |->
        [Skus |-> failed[i].Skus, State |-> failed[i].State,
         StatusCode |-> failed[i].StatusCode, Result |-> "failed",
         Error |-> failed[i].Error]]

\* The columns of the concatenation: those of the first table, then the
\* column only the second table has.
ReportColumns == <<"Skus", "State", "StatusCode", "Result", "Error">>

\* Lines 309-311: the tally as a table of (State, Count) rows sorted by Count,
\* largest first; the order of equal counts is left to the sort.
SummaryTables(c) ==
    {DataFrame(t, <<"State", "Count">>) :
        t \in {t \in [1..Cardinality(DOMAIN c) -> [State : DOMAIN c, Count : {c[k] : k \in DOMAIN c}]] :
                  /\ \A i \in DOMAIN t : t[i].Count = c[t[i].State]
                  /\ \A i, j \in DOMAIN t : i < j => t[i].State # t[j].State
                  /\ \A i, j \in DOMAIN t : i < j => t[i].Count >= t[j].Count}}

\* to_excel(index=False): a sheet is the row of column labels followed by
\* one row of cells per table row, in column order.
ToSheet(d) ==
    <<d.columns>> \o [i \in 1..Len(d.rows) |->
                         [j \in 1..Len(d.columns) |-> d.rows[i][d.columns[j]]]]

\* Lines 115-121: the workbook with the sheets "Report" and "Summary".
df_to_excel_bytes(d, summary) == [Report |-> ToSheet(d), Summary |-> ToSheet(summary)]

NoWorkbook == [Report |-> <<>>, Summary |-> <<>>]

\* iterate_products is called (line 195) with log_cb = log.
WalkBegins(mp, d) ==
    /\ max_pages' = mp
    /\ delay_s' = d
    /\ log_cb' = TRUE
    /\ next_url' = BaseUrl
    /\ items_acc' = <<>>
    /\ page' = 0
    /\ wpc' = "while"
    /\ wexc' = ""
    /\ data' = JNull
    /\ page_items' = JNull
    /\ wresult' = <<>>
    /\ events' = <<>>

\* summarize_states is called (line 196).
SummarizeBegins(items) ==
    /\ sum_items' = items
    /\ sum_i' = 0
    /\ rows' = <<>>
    /\ counts' = EmptyCounter
    /\ spc' = "loop"

\* Lines 265-269: the loop starts on the rows rs.
RemoveBegins(rs) ==
    /\ df_to_delete' = rs
    /\ total' = Len(rs)
    /\ idx' = 1
    /\ removed_rows' = <<>>
    /\ failed_rows' = <<>>
    /\ outcome' = [success |-> FALSE, status_code |-> 0, resp_text |-> ""]
    /\ progress' = <<>>
    /\ rlogs' = <<>>
    /\ calls' = <<>>
    /\ posts' = <<>>
    /\ inflight' = 0
    /\ rpc' = "next"

\* Lines 174-192: the run started by "Extraire le catalogue", up to the cache
\* hit or the call of iterate_products.
AppExtract ==
    /\ apc = "idle"
    /\ pressed' = "run_extract"
    /\ \E tk \in Tokens, mp \in AppMaxPages, pc \in BOOLEAN :
          /\ token' = tk
          /\ preserve_cache' = pc
          /\ IF tk = ""
             THEN \* line 176: st.error, no extraction
                  /\ apc' = "tail"
                  /\ UNCHANGED <<cache_key, use_cache, df, app_counts, app_exc>>
                  /\ UNCHANGED <<last_df, last_counts, walkVars>>
             ELSE LET key == CacheKey(BaseUrl, tk, mp, AppDelay)
                      hit == pc /\ key \in DOMAIN cached /\ ~force_refresh'
                  IN  /\ cache_key' = key
                      /\ use_cache' = hit
                      /\ IF hit
                         THEN /\ df' = cached[key]
                              /\ IF ~HasColumn(cached[key], "State")
                                 THEN \* df["State"] on a table without columns (line 185)
                                      /\ app_exc' = "KeyError"
                                      /\ apc' = "end"
                                      /\ UNCHANGED <<app_counts, last_df, last_counts>>
                                 ELSE LET c == CounterOf(cached[key].rows,
                                                         Len(cached[key].rows))
                                      IN  /\ app_counts' = c
                                          /\ last_df' = cached[key]
                                          /\ last_counts' = c
                                          /\ apc' = "tail"
                                          /\ UNCHANGED app_exc
                              /\ UNCHANGED walkVars
                         ELSE /\ WalkBegins(mp, AppDelay)
                              /\ apc' = "walk"
                              /\ UNCHANGED <<df, app_counts, app_exc, last_df, last_counts>>
    /\ UNCHANGED <<selected_statuses, report_df, summary_counts, xlsx>>
    /\ UNCHANGED <<cached, filled, sumVars, removeVars>>

\* Line 56 in a walk of the script.
AppWalkFetch ==
    /\ apc = "walk"
    /\ page <= AppMaxFetches
    /\ WalkFetch
    /\ Fetches'[Len(Fetches')].reply \in AppReplies

\* Lines 195-196 and 202-204: iterate_products has returned and its items go
\* to summarize_states, or it has raised and the except clause reports it.
AppWalkEnded ==
    /\ apc = "walk"
    /\ WalkEnded
    /\ IF wpc = "raised"
       THEN /\ app_exc' = wexc
            /\ apc' = "tail"
            /\ UNCHANGED sumVars
       ELSE /\ SummarizeBegins(wresult)
            /\ apc' = "summarize"
            /\ UNCHANGED app_exc
    /\ UNCHANGED <<pressed, token, preserve_cache, cache_key, use_cache, df, app_counts,
                   selected_statuses, report_df, summary_counts, xlsx>>
    /\ UNCHANGED <<sessionVars, walkVars, removeVars>>

\* The walk of this run had a fetch that failed.
CutShort == \E i \in 1..Len(Fetches) : FetchFailed(Fetches[i])

\* Lines 196-201: summarize_states has returned; the table goes to the
\* session and, with preserve_cache, to the cache.
AppStore ==
    /\ apc = "summarize"
    /\ spc = "done"
    /\ df' = CatalogFrame(rows)
    /\ app_counts' = counts
    /\ last_df' = df'
    /\ last_counts' = counts
    /\ IF preserve_cache
       THEN /\ cached' = (cache_key :> df') @@ cached
            /\ filled' = (cache_key :> [failed |-> CutShort, df |-> df', counts |-> counts])
                            @@ filled
       ELSE UNCHANGED <<cached, filled>>
    /\ apc' = "tail"
    /\ UNCHANGED <<pressed, token, preserve_cache, cache_key, use_cache,
                   selected_statuses, report_df, summary_counts, xlsx, app_exc>>
    /\ UNCHANGED <<walkVars, sumVars, removeVars>>

\* Lines 160-172 of a run started by another button or by a widget change:
\* the extraction is skipped.
AppRerun ==
    /\ apc = "idle"
    /\ pressed' \in Buttons \ {"run_extract"}
    /\ apc' = "tail"
    /\ UNCHANGED <<token, preserve_cache, cache_key, use_cache, df, app_counts,
                   selected_statuses, report_df, summary_counts, xlsx, app_exc>>
    /\ UNCHANGED <<sessionVars, walkVars, sumVars, removeVars>>

\* Lines 209-269: the table and tally of the session are restored, the
\* statuses are selected, and on confirm the removal loop starts.
AppTail ==
    /\ apc = "tail"
    /\ LET d == IF ~Empty(last_df) THEN last_df ELSE df
           c == IF ~Empty(last_df) THEN last_counts ELSE app_counts
           status_list == DOMAIN c
       IN  /\ df' = d
           /\ app_counts' = c
           /\ IF Empty(d)
              THEN /\ apc' = "end"
                   /\ UNCHANGED <<selected_statuses, removeVars>>
              ELSE \E widget \in SUBSET status_list :
                      LET sel == IF pressed = "select_all" THEN status_list
                                 ELSE IF pressed = "deselect_all" THEN {}
                                 ELSE IF pressed = "invert" THEN status_list \ widget
                                 ELSE widget
                      IN  /\ selected_statuses' = sel
                          /\ IF sel = {}
                             THEN /\ apc' = "end"
                                  /\ UNCHANGED removeVars
                             ELSE IF confirm /\ Isin(d, sel) # <<>>
                                  THEN /\ RemoveBegins(Isin(d, sel))
                                       /\ apc' = "remove"
                                  ELSE /\ df_to_delete' = Isin(d, sel)
                                       /\ apc' = "end"
                                       /\ UNCHANGED <<total, idx, removed_rows, failed_rows,
                                                      outcome, progress, rlogs, calls,
                                                      posts, inflight, rpc>>
    /\ UNCHANGED <<pressed, token, preserve_cache, cache_key, use_cache,
                   report_df, summary_counts, xlsx, app_exc>>
    /\ UNCHANGED <<sessionVars, walkVars, sumVars>>

\* Line 273 in a removal of the script.
AppRemoveOutcome ==
    /\ apc = "remove"
    /\ RemoveOutcome
    /\ posts'[Len(posts')].reply \in AppDeleteReplies

\* Lines 294-318: the report table, the summary table and the workbook.
AppReport ==
    /\ apc = "remove"
    /\ rpc = "done"
    /\ report_df' = DataFrame(ReportRows(removed_rows, failed_rows), ReportColumns)
    /\ summary_counts' \in SummaryTables(app_counts)
    /\ xlsx' = IF ~Empty(report_df')
               THEN df_to_excel_bytes(report_df', summary_counts')
               ELSE NoWorkbook
    /\ apc' = "end"
    /\ UNCHANGED <<pressed, token, preserve_cache, cache_key, use_cache, df, app_counts,
                   selected_statuses, app_exc>>
    /\ UNCHANGED <<sessionVars, walkVars, sumVars, removeVars>>

\* The locals of a script that is not running.
LocalsAtRest ==
    /\ pressed = "none"
    /\ token = ""
    /\ preserve_cache = TRUE
    /\ cache_key = NoKey
    /\ use_cache = FALSE
    /\ df = EmptyFrame
    /\ app_counts = EmptyCounter
    /\ selected_statuses = {}
    /\ report_df = EmptyFrame
    /\ summary_counts = EmptyFrame
    /\ xlsx = NoWorkbook
    /\ app_exc = ""

\* Lines 321-323: the run is over; its locals are gone, the session stays.
AppEnd ==
    /\ apc = "end"
    /\ apc' = "idle"
    /\ pressed' = "none"
    /\ token' = ""
    /\ preserve_cache' = TRUE
    /\ cache_key' = NoKey
    /\ use_cache' = FALSE
    /\ df' = EmptyFrame
    /\ app_counts' = EmptyCounter
    /\ selected_statuses' = {}
    /\ report_df' = EmptyFrame
    /\ summary_counts' = EmptyFrame
    /\ xlsx' = NoWorkbook
    /\ app_exc' = ""
    /\ max_pages' = 0
    /\ delay_s' = 0
    /\ log_cb' = TRUE
    /\ next_url' = JNull
    /\ items_acc' = <<>>
    /\ page' = 0
    /\ wpc' = "idle"
    /\ wexc' = ""
    /\ data' = JNull
    /\ page_items' = JNull
    /\ wresult' = <<>>
    /\ events' = <<>>
    /\ sum_items' = <<>>
    /\ sum_i' = 0
    /\ rows' = <<>>
    /\ counts' = EmptyCounter
    /\ spc' = "idle"
    /\ df_to_delete' = <<>>
    /\ total' = 0
    /\ idx' = 1
    /\ removed_rows' = <<>>
    /\ failed_rows' = <<>>
    /\ outcome' = [success |-> FALSE, status_code |-> 0, resp_text |-> ""]
    /\ progress' = <<>>
    /\ rlogs' = <<>>
    /\ calls' = <<>>
    /\ posts' = <<>>
    /\ inflight' = 0
    /\ rpc' = "idle"
    /\ UNCHANGED sessionVars

\* Lines 142-149: the session of a first run.
AppStart ==
    /\ apc = "idle"
    /\ LocalsAtRest
    /\ cached = <<>>
    /\ filled = <<>>
    /\ last_df = EmptyFrame
    /\ last_counts = EmptyCounter

\* No script under way.
AppOff ==
    /\ apc = "off"
    /\ LocalsAtRest
    /\ cached = <<>>
    /\ filled = <<>>
    /\ last_df = EmptyFrame
    /\ last_counts = EmptyCounter

(***************************************************************************)
(* The specifications: each runs one part of the program on its inputs.    *)
(***************************************************************************)
InitWalk == WalkStart /\ SummarizeIdle /\ RemoveIdle /\ AppOff

NextWalk == WalkWhile \/ WalkFetch \/ WalkPage

SpecWalk == InitWalk /\ [][NextWalk]_vars

InitSummarize == WalkIdle /\ SummarizeStart /\ RemoveIdle /\ AppOff

NextSummarize == SummarizeItem \/ SummarizeReturn

SpecSummarize == InitSummarize /\ [][NextSummarize]_vars

InitRemove == WalkIdle /\ SummarizeIdle /\ RemoveStart /\ AppOff

NextRemove == RemoveCall \/ RemoveOutcome \/ RemoveProgress

SpecRemove == InitRemove /\ [][NextRemove]_vars

\* The script, run after run on one session.
InitApp == WalkIdle /\ SummarizeIdle /\ RemoveIdle /\ AppStart

NextApp ==
    \/ AppExtract
    \/ WalkWhile
    \/ AppWalkFetch
    \/ WalkPage
    \/ AppWalkEnded
    \/ SummarizeItem
    \/ SummarizeReturn
    \/ AppStore
    \/ AppRerun
    \/ AppTail
    \/ RemoveCall
    \/ AppRemoveOutcome
    \/ RemoveProgress
    \/ AppReport
    \/ AppEnd

SpecApp == InitApp /\ [][NextApp]_vars

(***************************************************************************)
(* What the claims about the walk speak of.                                *)
(***************************************************************************)
\* The three documented payload shapes, each holding a list of items.
InNested(d) ==
    /\ "data" \in DOMAIN d.v
    /\ IsDict(d.v["data"])
    /\ "items" \in DOMAIN d.v["data"].v
    /\ IsList(d.v["data"].v["items"])

InDataList(d) == "data" \in DOMAIN d.v /\ IsList(d.v["data"])

InTopItems(d) ==
    /\ "data" \notin DOMAIN d.v
    /\ "items" \in DOMAIN d.v
    /\ IsList(d.v["items"])

\* A payload as the endpoint documents it: a mapping in one of the three shapes
\* whose paging block is absent or a mapping.
Documented(d) ==
    /\ IsDict(d)
    /\ InNested(d) \/ InDataList(d) \/ InTopItems(d)
    /\ "paging" \in DOMAIN d.v => IsDict(d.v["paging"])

\* The items a documented payload lists, by the documented precedence.
ListedItems(d) ==
    IF InNested(d) THEN d.v["data"].v["items"].v
    ELSE IF InDataList(d) THEN d.v["data"].v
    ELSE d.v["items"].v

\* The next token a documented payload carries (null when it carries none).
ListedNext(d) ==
    IF "paging" \in DOMAIN d.v /\ "next" \in DOMAIN d.v["paging"].v
    THEN d.v["paging"].v["next"]
    ELSE JNull

AllDocumented(F, n) == \A i \in 1..n : ~FetchFailed(F[i]) /\ Documented(F[i].reply.body)

RECURSIVE ConcatListed(_, _)
ConcatListed(F, n) ==
    IF n = 0 THEN <<>> ELSE ConcatListed(F, n - 1) \o ListedItems(F[n].reply.body)

\* The same with the items the code's own normalizer takes from each page.
RECURSIVE ConcatTaken(_, _)
ConcatTaken(F, n) ==
    IF n = 0 THEN <<>> ELSE ConcatTaken(F, n - 1) \o Elements(PageItems(F[n].reply.body))

\* The fetches follow the chain: the first on the start URL, each later one on
\* the next token of the page before it.
FollowsChain(F) ==
    \A i \in 1..Len(F) :
        F[i].url = (IF i = 1 THEN BaseUrl ELSE ListedNext(F[i - 1].reply.body))

\* C2: a page fetch that fails on page k ends the walk at once: the function
\* returns, without raising, exactly the items of pages 1..k-1 in order, and
\* page k is the last page requested.
C2_FailedFetchReturnsPrefix ==
    \A k \in 1..Len(Fetches) :
        FetchFailed(Fetches[k]) =>
            /\ k = Len(Fetches)
            /\ wpc = "done"
            /\ wexc = ""
            /\ AllDocumented(Fetches, k - 1) => wresult = ConcatListed(Fetches, k - 1)

\* C3: with max_pages = 0, a chain of N documented pages that all fetch
\* successfully and whose last page has no next token is walked in exactly N
\* fetches along the chain, and the concatenation of the N pages' items is returned.
C3_UnlimitedWalkReturnsAllPages ==
    (max_pages = 0 /\ WalkEnded /\ AllDocumented(Fetches, Len(Fetches))) =>
        /\ wpc = "done"
        /\ Len(Fetches) >= 1
        /\ FollowsChain(Fetches)
        /\ \A i \in 1..Len(Fetches) :
              Truthy(ListedNext(Fetches[i].reply.body)) <=> i < Len(Fetches)
        /\ wresult = ConcatListed(Fetches, Len(Fetches))

\* C4: with max_pages = m > 0, a chain of N documented pages that all fetch
\* successfully is walked in exactly min(m, N) fetches and the items of those
\* pages are returned: the walk stops before fetching page m + 1.
C4_LimitedWalkStopsAtMaxPages ==
    (max_pages > 0 /\ WalkEnded /\ AllDocumented(Fetches, Len(Fetches))) =>
        /\ wpc = "done"
        /\ Len(Fetches) >= 1
        /\ Len(Fetches) <= max_pages
        /\ \A i \in 1..Len(Fetches) :
              i < Len(Fetches) => Truthy(ListedNext(Fetches[i].reply.body))
        /\ Len(Fetches) < max_pages =>
              ~Truthy(ListedNext(Fetches[Len(Fetches)].reply.body))
        /\ wresult = ConcatListed(Fetches, Len(Fetches))

\* C5: from each of the three documented shapes the normalizer takes the item
\* list the payload holds: nested data.items, data as the list, top-level items.
C5_SameItemsFromEveryShape ==
    (wpc \in {"while", "fetch", "done"} /\ data.t = "dict" /\ Documented(data)) =>
        /\ page_items.t = "list"
        /\ page_items.v = ListedItems(data)

\* A payload of an unexpected shape: no mapping, a paging block that is no
\* mapping, or an item container that is no list.
Malformed(d) ==
    \/ ~IsDict(d)
    \/ "paging" \in DOMAIN d.v /\ ~IsDict(d.v["paging"])
    \/ /\ "data" \in DOMAIN d.v
       /\ IsDict(d.v["data"])
       /\ "items" \in DOMAIN d.v["data"].v
       /\ ~IsList(d.v["data"].v["items"])

\* C6: a fetched page of an unexpected shape counts as an empty item list and
\* does not fail the walk: iterate_products never raises, and returns what the
\* earlier pages gave.
C6_MalformedPageDegradesToEmpty ==
    /\ wpc # "raised"
    /\ (wpc \in {"while", "fetch", "done"} /\ data.t = "dict" /\ Malformed(data)) =>
          (page_items.t = "list" /\ Len(page_items.v) = 0)

\* The control flow of the walk, with the items of a page taken to be what the
\* code's normalizer makes of it: a failed fetch is the last one and the
\* pages before it are returned; a walk that returns has followed the chain
\* up to its end or up to max_pages and returns every fetched page.
WalkReturnsFetchedPages ==
    LET F == Fetches
        n == Len(F)
        ok == IF n > 0 /\ FetchFailed(F[n]) THEN n - 1 ELSE n
    IN  /\ \A k \in 1..n : FetchFailed(F[k]) => k = n /\ wpc = "done"
        /\ max_pages > 0 => n <= max_pages
        /\ \A i \in 2..n : F[i].url = DictGet(PagingOf(F[i - 1].reply.body), "next", JNull)
        /\ wpc = "done" =>
              /\ wresult = ConcatTaken(F, ok)
              /\ ok = n =>
                    \/ n = max_pages
                    \/ n > 0 /\ ~Truthy(DictGet(PagingOf(F[n].reply.body), "next", JNull))

(***************************************************************************)
(* What the claims about the removal loop and the summary speak of.        *)
(***************************************************************************)
\* Rows 1..k of the input whose delete succeeded (b) or failed (~b), in input order.
RECURSIVE RoutedTo(_, _)
RoutedTo(k, b) ==
    IF k = 0 THEN <<>>
    ELSE RoutedTo(k - 1, b)
         \o (IF posts[k].result.success = b THEN <<df_to_delete[k]>> ELSE <<>>)

\* The catalog columns of result rows.
CatalogColumns(rs) == [i \in 1..Len(rs) |-> [Skus |-> rs[i].Skus, State |-> rs[i].State]]

\* C1: a failed delete never aborts the batch: the loop goes on to the end of
\* the input, each processed item is in exactly one of removed_rows (its
\* delete succeeded) and failed_rows (it failed), both in input order.
C1_FailedDeleteNeverAbortsBatch ==
    /\ Len(posts) <= Len(df_to_delete)
    /\ CatalogColumns(removed_rows) = RoutedTo(Len(posts), TRUE)
    /\ CatalogColumns(failed_rows) = RoutedTo(Len(posts), FALSE)
    /\ Len(removed_rows) + Len(failed_rows) = Len(posts)
    /\ rpc = "done" => Len(posts) = Len(df_to_delete)
    /\ rpc # "done" => ENABLED NextRemove

\* [A, B, C] with B failing gives removed = [A, C], failed = [B].
C1_Witness ==
    /\ rpc = "done"
    /\ total = 3
    /\ posts[1].result.success /\ ~posts[2].result.success /\ posts[3].result.success
    /\ CatalogColumns(removed_rows) = <<df_to_delete[1], df_to_delete[3]>>
    /\ CatalogColumns(failed_rows) = <<df_to_delete[2]>>
    /\ df_to_delete[1] # df_to_delete[3]

\* C7: post_remove_sku always returns; the delete counts as succeeded exactly
\* when an HTTP response with status 200 came back; any other status gives
\* (false, that status), a transport error gives (false, -1, error text), and
\* -1 appears for a transport error only.
C7_SuccessOnlyOnStatus200 ==
    /\ \A i \in 1..Len(posts) :
          LET r == posts[i].reply
              o == posts[i].result
          IN  /\ o.success <=> (r.kind = "http" /\ r.status = 200)
              /\ r.kind = "http" => o.status_code = r.status
              /\ r.kind = "transport" =>
                    ~o.success /\ o.status_code = -1 /\ o.resp_text = r.text
              /\ o.status_code = -1 => r.kind = "transport"
    /\ rpc = "posting" => ENABLED RemoveOutcome

\* A run with a 200, another 2xx status and a transport failure.
C7_Witness ==
    /\ rpc = "done"
    /\ \E i, j, k \in 1..Len(posts) :
          /\ posts[i].reply.kind = "http" /\ posts[i].reply.status = 200
          /\ posts[i].result.success
          /\ posts[j].reply.kind = "http" /\ posts[j].reply.status = 204
          /\ ~posts[j].result.success /\ posts[j].result.status_code = 204
          /\ posts[k].reply.kind = "transport" /\ posts[k].result.status_code = -1

\* C8: post_remove_sku is called once per row of the input, in input order,
\* with the row's sku as it is (duplicates and the empty string included); a
\* call starts only when the call before it has returned and its outcome is
\* recorded, and a failed row is not tried again.
C8_OneDeletePerRowInOrder ==
    /\ Len(calls) <= Len(df_to_delete)
    /\ \A i \in 1..Len(calls) : calls[i] = df_to_delete[i].Skus
    /\ inflight \in {0, 1}
    /\ Len(calls) = Len(posts) + inflight
    /\ Len(removed_rows) + Len(failed_rows) = Len(posts)
    /\ rpc = "done" => Len(calls) = Len(df_to_delete)

\* A finished run over a duplicated row and an empty sku, the first delete failing.
C8_Witness ==
    /\ rpc = "done"
    /\ total = 3
    /\ df_to_delete[1] = df_to_delete[2]
    /\ df_to_delete[1].Skus = "A"
    /\ df_to_delete[3].Skus = ""
    /\ calls = <<"A", "A", "">>
    /\ ~posts[1].result.success

\* C10 as stated: progress is reported once after each row, after the row's
\* outcome is recorded, and the k-th report carries the value k/total (as a
\* percentage: 100*k/total), so the reports never decrease, never exceed 100%
\* and the last one is 100%.
C10_ReportIsExactFraction ==
    /\ Len(progress) = (IF rpc = "progress" THEN Len(posts) - 1 ELSE Len(posts))
    /\ Len(removed_rows) + Len(failed_rows) = Len(posts)
    /\ \A k \in 1..Len(progress) :
          /\ progress[k] * total = 100 * k
          /\ progress[k] <= 100
          /\ k > 1 => progress[k - 1] <= progress[k]
    /\ rpc = "done" => Len(progress) = total /\ progress[total] = 100

\* C10, amended: progress is reported once after each row, after the row's
\* outcome is recorded; the k-th report is the whole percentage
\* int((k/total)*100), at most 100*k/total and at least 100*k/total - 1; the
\* reports never decrease, never exceed 100, and the last one is 100.
C10_ReportIsTruncatedPercent ==
    /\ Len(progress) = (IF rpc = "progress" THEN Len(posts) - 1 ELSE Len(posts))
    /\ Len(removed_rows) + Len(failed_rows) = Len(posts)
    /\ \A k \in 1..Len(progress) :
          /\ progress[k] * total <= 100 * k
          /\ progress[k] * total >= 100 * k - total
          /\ progress[k] <= 100
          /\ k > 1 => progress[k - 1] <= progress[k]
    /\ rpc = "done" => Len(progress) = total /\ progress[total] = 100

\* Three rows: the reports are 33, 66, 100.
C10_Witness ==
    /\ rpc = "done"
    /\ total = 3
    /\ progress = <<33, 66, 100>>

\* A field of an item that holds a string that is not empty.
HasText(it, k) == k \in DOMAIN it.v /\ it.v[k].t = "str" /\ it.v[k].v # ""

\* A field of an item that is missing or null.
MissingOrNull(it, k) == k \notin DOMAIN it.v \/ it.v[k].t = "null"

RECURSIVE SumOfCounts(_, _)
SumOfCounts(c, S) ==
    IF S = {} THEN 0
    ELSE LET k == CHOOSE x \in S : TRUE IN c[k] + SumOfCounts(c, S \ {k})

\* C9: summarize_states drops no item: one row per item in input order, a
\* missing or null identifier becomes "", a missing or null status becomes
\* "unknown", the tally maps each status to the number of rows with that
\* status, and the tally counts add up to the number of items.
C9_SummarizeKeepsEveryItem ==
    spc = "done" =>
        /\ Len(rows) = Len(sum_items)
        /\ \A i \in 1..Len(sum_items) :
              LET it == sum_items[i]
              IN  /\ MissingOrNull(it, "sku") => rows[i].Skus = ""
                  /\ HasText(it, "sku") => rows[i].Skus = it.v["sku"].v
                  /\ MissingOrNull(it, "state") => rows[i].State = "unknown"
                  /\ HasText(it, "state") => rows[i].State = it.v["state"].v
        /\ DOMAIN counts = {rows[i].State : i \in 1..Len(rows)}
        /\ \A st \in DOMAIN counts :
              counts[st] = Cardinality({i \in 1..Len(rows) : rows[i].State = st})
        /\ SumOfCounts(counts, DOMAIN counts) = Len(sum_items)

\* Statuses approved, null, approved, one item without an identifier: the
\* tally is {approved: 2, unknown: 1}.
C9_Witness ==
    /\ spc = "done"
    /\ Len(sum_items) = 3
    /\ DOMAIN counts = {"approved", "unknown"}
    /\ counts["approved"] = 2
    /\ counts["unknown"] = 1
    /\ rows[1].State = "approved" /\ rows[2].State = "unknown" /\ rows[3].State = "approved"
    /\ "sku" \notin DOMAIN sum_items[2].v
    /\ rows[2].Skus = ""

(***************************************************************************)
(* The pauses and the log lines of the walk.                               *)
(***************************************************************************)
Sleeps == SelectSeq(events, LAMBDA ev : ev.e = "sleep")

IsLine(ev, line) == ev.e = "log" /\ ev.line = line

\* The position in events of the k-th fetch.
RECURSIVE FetchPos(_, _)
FetchPos(k, from) ==
    IF events[from].e = "fetch"
    THEN (IF k = 1 THEN from ELSE FetchPos(k - 1, from + 1))
    ELSE FetchPos(k, from + 1)

\* C11: the walk pauses after a page exactly when the delay is nonzero and
\* another page remains to be fetched: with delay 0 it never pauses, every
\* pause is followed by a fetch of the next page, and a walk that has ended
\* (by an absent token, by max_pages or by a failure) paused after each page
\* but the last, so once between two consecutive fetches and never after the
\* last fetch.
C11_PauseOnlyBeforeNextFetch ==
    /\ delay_s = 0 => Sleeps = <<>>
    /\ WalkEnded =>
          /\ \A i \in 1..Len(events) :
                events[i].e = "sleep" =>
                    \E j \in (i + 1)..Len(events) : events[j].e = "fetch"
          /\ delay_s # 0 /\ Fetches # <<>> => Len(Sleeps) = Len(Fetches) - 1

\* C12: with a log callback, the k-th fetch comes right after one
\* "Requesting page" line numbered k, a successful fetch is followed by one
\* line carrying the item count of that page, a failed fetch by one error
\* line, and the walk does nothing but log and fetch (and pause, C11).
C12_OneLineBeforeAndAfterEachFetch ==
    log_cb =>
        /\ \A i \in 1..Len(events) : events[i].e \in {"log", "fetch", "sleep"}
        /\ Len(SelectSeq(events, LAMBDA ev : IsLine(ev, "Requesting page")))
              = Len(Fetches) + (IF wpc = "fetch" THEN 1 ELSE 0)
        /\ Len(SelectSeq(events, LAMBDA ev : IsLine(ev, "Fetched")))
              + Len(SelectSeq(events, LAMBDA ev : IsLine(ev, "HTTP error page")
                                                  \/ IsLine(ev, "Network error page")))
              = Len(Fetches) - (IF wpc = "page" THEN 1 ELSE 0)
        /\ \A k \in 1..Len(Fetches) :
              LET i == FetchPos(k, 1)
                  f == events[i]
              IN  /\ i > 1
                  /\ IsLine(events[i - 1], "Requesting page")
                  /\ events[i - 1].page = k
                  /\ events[i - 1].url = f.url
                  /\ (k < Len(Fetches) \/ wpc # "page") =>
                        /\ i < Len(events)
                        /\ IF FetchFailed(f)
                           THEN /\ \/ IsLine(events[i + 1], "HTTP error page")
                                   \/ IsLine(events[i + 1], "Network error page")
                                /\ events[i + 1].page = k
                           ELSE /\ IsLine(events[i + 1], "Fetched")
                                /\ events[i + 1].page = k
                                /\ Documented(f.reply.body) =>
                                      events[i + 1].n = Len(ListedItems(f.reply.body))

\* The next token of the page a reply carries: null when the reply is a
\* failure or its payload carries none.
TokenOf(reply) ==
    IF reply.kind = "http" /\ reply.status < 400 /\ IsDict(reply.body)
       /\ "paging" \in DOMAIN reply.body.v /\ IsDict(reply.body.v["paging"])
    THEN ListedNext(reply.body)
    ELSE JNull

\* C16: a walk with max_pages = m > 0 makes at most m fetches and, whatever
\* the server answers, can always take its next step until it has ended; a
\* walk with max_pages = 0 ends only on a failed fetch or on a page whose
\* next token is absent or empty.
C16_WalkStopsOnlyByTokenLimitOrFailure ==
    /\ max_pages > 0 => Len(Fetches) <= max_pages
    /\ max_pages > 0 /\ wpc \in {"while", "fetch", "page"} =>
          ENABLED (WalkWhile \/ WalkFetch \/ WalkPage)
    /\ max_pages = 0 /\ WalkEnded =>
          /\ Fetches # <<>>
          /\ LET last == Fetches[Len(Fetches)]
             IN  FetchFailed(last) \/ ~Truthy(TokenOf(last.reply))

\* What the walk does instead. It pauses after a page whenever the delay is
\* nonzero and the page carried a next token: a pause with no fetch after it
\* is the pause before the stop at max_pages.
WalkPausesWhenTokenPresent ==
    /\ delay_s = 0 => Sleeps = <<>>
    /\ \A i \in 1..Len(events) :
          events[i].e = "sleep" =>
              /\ delay_s # 0
              /\ \E j \in 1..(i - 1) :
                    /\ events[j].e = "fetch"
                    /\ Truthy(TokenOf(events[j].reply))
                    /\ \A m \in (j + 1)..(i - 1) : events[m].e = "log"
    /\ WalkEnded =>
          \A i \in 1..Len(events) :
              events[i].e = "sleep" =>
                  \/ \E j \in (i + 1)..Len(events) : events[j].e = "fetch"
                  \/ max_pages > 0 /\ Len(Fetches) = max_pages /\ wpc = "done"

\* A walk that returns logged one "Requesting page" line before each fetch and
\* one line after it, which carries the number of items the normalizer took.
WalkLogsEachFetchUnlessRaised ==
    log_cb /\ wpc # "raised" =>
        \A k \in 1..Len(Fetches) :
            LET i == FetchPos(k, 1)
                f == events[i]
            IN  /\ i > 1
                /\ IsLine(events[i - 1], "Requesting page")
                /\ events[i - 1].page = k
                /\ (k < Len(Fetches) \/ wpc # "page") =>
                      /\ i < Len(events)
                      /\ events[i + 1].e = "log"
                      /\ events[i + 1].page = k
                      /\ ~FetchFailed(f) =>
                            /\ IsLine(events[i + 1], "Fetched")
                            /\ events[i + 1].n = Len(Elements(PageItems(f.reply.body)))

\* A walk that returns stopped by one of the three documented conditions.
WalkReturnsByTokenLimitOrFailure ==
    /\ max_pages > 0 => Len(Fetches) <= max_pages
    /\ max_pages > 0 /\ wpc \in {"while", "fetch", "page"} =>
          ENABLED (WalkWhile \/ WalkFetch \/ WalkPage)
    /\ wpc = "done" =>
          /\ Fetches # <<>>
          /\ LET last == Fetches[Len(Fetches)]
             IN  \/ FetchFailed(last)
                 \/ ~Truthy(TokenOf(last.reply))
                 \/ max_pages > 0 /\ Len(Fetches) = max_pages

(***************************************************************************)
(* The report, the selection and the cache of the script.                  *)
(***************************************************************************)
\* The position of the column named c in the first row of a sheet.
ColumnOf(sheet, c) == CHOOSE j \in 1..Len(sheet[1]) : sheet[1][j] = c

\* The cells of the column named c, read back from a sheet, top to bottom.
ReadColumn(sheet, c) == [i \in 1..(Len(sheet) - 1) |-> sheet[i + 1][ColumnOf(sheet, c)]]

\* The (identifier, succeeded) pairs read back from the Report sheet.
ReadOutcomes(sheet) ==
    [i \in 1..(Len(sheet) - 1) |->
        <<ReadColumn(sheet, "Skus")[i], ReadColumn(sheet, "Result")[i] = "removed">>]

\* The (identifier, succeeded) pairs of the run, in processing order.
RunOutcomes == [i \in 1..Len(posts) |-> <<posts[i].sku, posts[i].result.success>>]

\* C13: the report written after a bulk removal holds one row per processed
\* item, the removed rows first and the failed rows after them, each group
\* in processing order; the Skus and Result columns read back from the
\* Report sheet give exactly the (identifier, succeeded) pairs of the run;
\* and the Summary sheet is the tally of the catalog, computed before the
\* deletion.  A removal that ran to its end always writes the report.
C13_ReportRoundTripsOutcomes ==
    apc = "end" /\ rpc = "done" =>
        /\ xlsx # NoWorkbook
        /\ LET sheet == xlsx.Report
               back == ReadOutcomes(sheet)
               summary == xlsx.Summary
           IN  /\ Len(back) = total
               /\ Len(back) = Len(posts)
               /\ \A i \in 1..Len(back) :
                     ReadColumn(sheet, "Result")[i] \in {"removed", "failed"}
               /\ back = SelectSeq(RunOutcomes, LAMBDA o : o[2])
                            \o SelectSeq(RunOutcomes, LAMBDA o : ~o[2])
               /\ {back[i] : i \in 1..Len(back)}
                     = {RunOutcomes[i] : i \in 1..Len(RunOutcomes)}
               /\ Len(summary) - 1 = Cardinality(DOMAIN last_counts)
               /\ {<<ReadColumn(summary, "State")[i], ReadColumn(summary, "Count")[i]>> :
                        i \in 1..(Len(summary) - 1)}
                     = {<<k, last_counts[k]>> : k \in DOMAIN last_counts}
               /\ last_counts = CounterOf(last_df.rows, Len(last_df.rows))

\* Catalog A, B, C with every status selected: the delete of A fails, those
\* of B and C succeed, and the report lists B, C, A.
C13_Witness ==
    /\ apc = "end"
    /\ rpc = "done"
    /\ RunOutcomes = << <<"A", FALSE>>, <<"B", TRUE>>, <<"C", TRUE>> >>
    /\ ReadOutcomes(xlsx.Report) = << <<"B", TRUE>>, <<"C", TRUE>>, <<"A", FALSE>> >>
    /\ Len(xlsx.Summary) = 4

\* C14: the removal loop runs on exactly the rows of the catalog whose
\* status is selected, in catalog order: a delete is called only in a run with
\* confirm pressed and a status selected, only for rows with a selected
\* status, and by the end of the loop once for every such row.
C14_DeletesExactlySelectedRows ==
    /\ calls # <<>> \/ rpc # "idle" => confirm /\ selected_statuses # {}
    /\ rpc # "idle" =>
          /\ df = last_df
          /\ df_to_delete = SelectSeq(df.rows, LAMBDA r : r.State \in selected_statuses)
          /\ \A i \in 1..Len(calls) :
                /\ calls[i] = df_to_delete[i].Skus
                /\ df_to_delete[i].State \in selected_statuses
          /\ rpc = "done" =>
                Len(calls) = Cardinality({i \in 1..Len(df.rows) :
                                             df.rows[i].State \in selected_statuses})
    /\ apc = "end" /\ (~confirm \/ selected_statuses = {}) => calls = <<>> /\ posts = <<>>

\* Catalog A (approved), B (rejected), C (unknown) with approved and unknown
\* selected: the deletes are those of A and C, in this order.
C14_Witness ==
    /\ rpc = "done"
    /\ Len(df.rows) = 3
    /\ selected_statuses = {"approved", "unknown"}
    /\ calls = <<"A", "C">>

\* A run with statuses selected and no confirm: the rows are shown, no
\* delete is called.
C14_WitnessNoConfirm ==
    /\ apc = "end"
    /\ ~confirm
    /\ selected_statuses = {"rejected"}
    /\ Len(df_to_delete) = 1
    /\ calls = <<>>

\* C15: every entry of the session cache was filled by a walk none of whose
\* fetches failed, so an extraction answered from the cache is never answered
\* from the prefix of a walk that a failed fetch cut short.
C15_CacheHoldsOnlyCompleteWalks ==
    /\ DOMAIN filled = DOMAIN cached
    /\ \A k \in DOMAIN cached : cached[k] = filled[k].df /\ ~filled[k].failed
    /\ use_cache => ~filled[cache_key].failed

\* What the cache holds instead: the table of the last walk that returned
\* for the key with preserve_cache on, cut short or not.
CacheHoldsReturnedWalks ==
    /\ DOMAIN filled = DOMAIN cached
    /\ \A k \in DOMAIN cached :
          /\ cached[k] = filled[k].df
          /\ filled[k].counts = CounterOf(cached[k].rows, Len(cached[k].rows))
    /\ apc = "tail" /\ wpc = "done" /\ preserve_cache =>
          /\ cache_key \in DOMAIN cached
          /\ cached[cache_key] = CatalogFrame(rows)
          /\ filled[cache_key].failed = CutShort

\* C17: an extraction is served from the cache only with preserve_cache on,
\* the key in the cache and no forced refresh; it fetches no page, it ends
\* without an exception, and it leaves in the session the rows and the tally
\* of the walk that filled the entry, whatever that walk returned.
C17_CacheHitRestoresFilledWalk ==
    use_cache =>
        /\ preserve_cache
        /\ cache_key \in DOMAIN cached
        /\ ~force_refresh
        /\ Fetches = <<>>
        /\ wpc = "idle"
        /\ app_exc = ""
        /\ last_df = filled[cache_key].df
        /\ last_counts = filled[cache_key].counts

\* What holds instead: a hit on an entry with rows restores them and their
\* tally; a hit on the entry of a walk that returned no item raises KeyError
\* and leaves the session as it was.
CacheHitRestoresEntryWithRows ==
    use_cache =>
        /\ preserve_cache
        /\ cache_key \in DOMAIN cached
        /\ ~force_refresh
        /\ Fetches = <<>>
        /\ wpc = "idle"
        /\ IF filled[cache_key].df.rows = <<>>
           THEN app_exc = "KeyError"
           ELSE /\ app_exc = ""
                /\ last_df = filled[cache_key].df
                /\ last_counts = filled[cache_key].counts

====
